---------------------------- MODULE Spec2Model ----------------------------
(***************************************************************************)
(* Model of the task router of AgentRecommend:                             *)
(*   src/agents/utils/function_caller_model.py  (LiteLLMFunctionCaller)    *)
(*   src/agents/utils/MultiAgentRouter.py       (MultiAgentRouter)         *)
(*                                                                         *)
(* Python values are modelled as follows.  A string that the code parses   *)
(* (the model reply) is a sequence of characters/lexemes; an Optional      *)
(* value is a sequence of length at most one (None is <<>>, x is <<x>>);   *)
(* a raised exception is an outcome record with raised = TRUE.             *)
(***************************************************************************)
EXTENDS Naturals, Sequences, FiniteSets

\* Total number of tasks one behaviour may hand to route_task or to the Model
\* Caller's run; it caps the length of the task lists and the number of
\* operations in a row.
MaxCalls == 2

None == <<>>

Some(x) == <<x>>

Range(s) == {s[i] : i \in DOMAIN s}

-----------------------------------------------------------------------------
(* The external collaborators, mocked deterministically: the completion    *)
(* endpoint answers each task text with a fixed reply, a handler's outcome *)
(* depends only on the handler and its argument.  The task texts are one   *)
(* representative per kind of reply: t_a selects A and proposes the        *)
(* modified task m1; t_b selects B, with an empty modified task, in a      *)
(* fenced reply; t_bad is answered with text that is no JSON; t_schema     *)
(* with JSON that fails the schema.  B is registered in one of the two     *)
(* registries only, and the handler a2 of the other one raises.            *)

Tasks == {"t_a", "t_b", "t_bad", "t_schema"}

\* "bq" is the backquote character (SANY rejects it inside a string).
Fence == <<"bq", "bq", "bq">>

FenceJson == Fence \o <<"j", "s", "o", "n">>

\* A lexeme "sel:X" stands for the member "selected_agent": "X", "sel:#" for
\* "selected_agent": 7, "rea:x" for "reasoning": "x", "mod:X" for
\* "modified_task": "X", "mod:" for "modified_task": "" and "mod:null" for
\* "modified_task": null.
MemberTokens == {"sel:A", "sel:B", "sel:#", "rea:x", "mod:m1", "mod:", "mod:null"}

Completion(task) ==
    CASE task = "t_a"      -> [error |-> FALSE, content |-> <<"{", "sel:A", "rea:x", "mod:m1", "}">>]
      [] task = "t_b"      -> [error |-> FALSE, content |-> FenceJson \o <<"\n", "{", "sel:B", "rea:x", "mod:", "}", "\n">> \o Fence]
      [] task = "t_bad"    -> [error |-> FALSE, content |-> <<"s", "o", "{", "sel:A">>]
      [] task = "t_schema" -> [error |-> FALSE, content |-> <<"{", "rea:x", "sel:#", "mod:null", "}">>]
      [] OTHER             -> [error |-> TRUE, content |-> <<>>]

\* The handlers whose run raises.
RaisingHandlers == {"a2"}

HandlerRun(agent, arg) ==
    IF agent.id \in RaisingHandlers
    THEN [raised |-> TRUE, value |-> <<>>]
    ELSE [raised |-> FALSE, value |-> <<"response", agent.id, arg>>]

-----------------------------------------------------------------------------
(* LiteLLMFunctionCaller.run                                               *)

Whitespace == {" ", "\n", "\t", "\r"}

RECURSIVE LStrip(_, _)
LStrip(s, chars) ==
    IF s # <<>> /\ Head(s) \in chars THEN LStrip(Tail(s), chars) ELSE s

RECURSIVE RStrip(_, _)
RStrip(s, chars) ==
    IF s # <<>> /\ s[Len(s)] \in chars THEN RStrip(SubSeq(s, 1, Len(s) - 1), chars) ELSE s

\* str.strip(chars): drops from both ends every character that is in chars.
Strip(s, chars) == RStrip(LStrip(s, chars), chars)

StartsWith(s, prefix) ==
    Len(s) >= Len(prefix) /\ SubSeq(s, 1, Len(prefix)) = prefix

\* Variant of StripFence that removes the opening fence only.
StripFenceLeading(content) ==
    IF StartsWith(content, FenceJson)
    THEN Strip(LStrip(content, Range(FenceJson)), Whitespace)
    ELSE content

StripFence(content) ==
    IF StartsWith(content, FenceJson)
    THEN Strip(Strip(Strip(content, Range(FenceJson)), Range(Fence)), Whitespace)
    ELSE content

MemberKey(tok) ==
    CASE tok \in {"sel:A", "sel:B", "sel:#"} -> "selected_agent"
      [] tok = "rea:x" -> "reasoning"
      [] OTHER -> "modified_task"

MemberValue(tok) ==
    CASE tok = "sel:A" -> [type |-> "str", text |-> "A"]
      [] tok = "sel:B" -> [type |-> "str", text |-> "B"]
      [] tok = "sel:#" -> [type |-> "int", text |-> "7"]
      [] tok = "rea:x" -> [type |-> "str", text |-> "x"]
      [] tok = "mod:m1" -> [type |-> "str", text |-> "m1"]
      [] tok = "mod:" -> [type |-> "str", text |-> ""]
      [] OTHER -> [type |-> "null", text |-> ""]

\* The dict of a member list; a repeated key keeps its last value.
Members(toks) ==
    [k \in {MemberKey(toks[i]) : i \in DOMAIN toks} |->
        LET last == CHOOSE i \in DOMAIN toks :
                        /\ MemberKey(toks[i]) = k
                        /\ \A j \in DOMAIN toks : MemberKey(toks[j]) = k => j <= i
        IN MemberValue(toks[last])]

\* json.loads: surrounding whitespace is ignored; the text must be one JSON
\* value (here an object or null), anything else raises JSONDecodeError.
JsonLoads(content) ==
    LET text == Strip(content, Whitespace) IN
    IF text = <<"null">>
    THEN [raised |-> FALSE, kind |-> "null", members |-> <<>>]
    ELSE IF /\ Len(text) >= 2
            /\ text[1] = "{"
            /\ text[Len(text)] = "}"
            /\ \A i \in 2 .. Len(text) - 1 : text[i] \in MemberTokens
    THEN [raised |-> FALSE, kind |-> "object",
          members |-> Members(SubSeq(text, 2, Len(text) - 1))]
    ELSE [raised |-> TRUE, kind |-> "JSONDecodeError", members |-> <<>>]

\* AgentResponse.model_validate: selected_agent and reasoning are required
\* strings, modified_task is an optional string defaulting to None.
ModelValidate(parsed) ==
    LET m == parsed.members
        invalid == [raised |-> TRUE, value |-> None]
    IN
    IF parsed.kind # "object" THEN invalid
    ELSE IF "selected_agent" \notin DOMAIN m \/ "reasoning" \notin DOMAIN m THEN invalid
    ELSE IF m["selected_agent"].type # "str" \/ m["reasoning"].type # "str" THEN invalid
    ELSE IF "modified_task" \in DOMAIN m /\ m["modified_task"].type \notin {"str", "null"} THEN invalid
    ELSE [raised |-> FALSE,
          value |-> Some([selected_agent |-> m["selected_agent"].text,
                          reasoning |-> m["reasoning"].text,
                          modified_task |->
                              IF "modified_task" \in DOMAIN m /\ m["modified_task"].type = "str"
                              THEN Some(m["modified_task"].text)
                              ELSE None])]

\* Lines 41-52: the content of the reply is stripped of its fence, parsed
\* and validated.
ParseContent(content) ==
    LET parsed_content == JsonLoads(StripFence(content)) IN
    IF parsed_content.raised THEN [raised |-> TRUE, value |-> None]
    ELSE ModelValidate(parsed_content)

\* The body of the try block of run: an outcome with raised = TRUE is an
\* exception leaving the block.  requests are the completion requests made,
\* each by the task it carried.
RunBody(task) ==
    LET response == Completion(task)
        parsed == ParseContent(response.content)
    IN
    IF response.error THEN [raised |-> TRUE, value |-> None, requests |-> <<task>>]
    ELSE [raised |-> parsed.raised, value |-> parsed.value, requests |-> <<task>>]

\* Variant of Run without the except clause.
RunUncaught(task) == RunBody(task)

\* Variant of Run that makes the request a second time when the first
\* attempt has failed.
RunRetry(task) ==
    LET body == RunBody(task)
        again == RunBody(task)
    IN
    IF body.raised
    THEN [raised |-> FALSE, value |-> IF again.raised THEN None ELSE again.value,
          requests |-> body.requests \o again.requests]
    ELSE body

\* except Exception: print and return None.
Run(task) ==
    LET body == RunBody(task) IN
    IF body.raised
    THEN [raised |-> FALSE, value |-> None, requests |-> body.requests]
    ELSE body

-----------------------------------------------------------------------------
(* MultiAgentRouter                                                        *)

VARIABLES
    agents,         \* self.agents: handler name -> handler (name, id)
    execute_task,   \* self.execute_task
    conversation,   \* self.conversation: the turns added so far
    calls,          \* every route_task call made so far, by call number
    op,             \* the router operation the caller has made last
    fc,             \* the Model Caller operation the caller has made last
    submitted,      \* number of tasks handed to route_task or run so far
    pool,           \* the thread pool of concurrent_batch_run, seen on its own
    reply,          \* a reply of the completion endpoint, bare and fenced
    session         \* st.session_state of the chat session of main.py

\* The state of the router and its Model Caller.
routerVars == <<agents, execute_task, conversation, calls, op, fc, submitted>>

vars == <<agents, execute_task, conversation, calls, op, fc, submitted, pool, reply, session>>

\* The handler lists a router is constructed with in this model: one handler,
\* and two handlers in a list that registers the name A twice (the handler
\* a2 registered last is the one that raises).
AgentLists ==
    { <<[name |-> "A", id |-> "a1"]>>,
      <<[name |-> "A", id |-> "a1"], [name |-> "B", id |-> "b1"], [name |-> "A", id |-> "a2"]>> }

\* {agent.name: agent for agent in agents}: a later entry replaces an earlier
\* one of the same name.
Registry(list) ==
    [n \in {list[i].name : i \in DOMAIN list} |->
        list[CHOOSE i \in DOMAIN list :
                /\ list[i].name = n
                /\ \A j \in DOMAIN list : list[j].name = n => j <= i]]

\* One turn of the conversation.  call is the number of the route_task call
\* that added it (bookkeeping of the model, not a field of the turn).
Turn(role, content, call) == [role |-> role, content |-> content, call |-> call]

\* any_to_str of the boss response.
AnyToStr(boss_response) ==
    IF boss_response = None THEN <<"None">>
    ELSE <<"selected_agent", boss_response[1].selected_agent,
           "reasoning", boss_response[1].reasoning,
           "modified_task">> \o boss_response[1].modified_task

\* Python truthiness of an Optional[str].
Truthy(opt) == opt # None /\ opt[1] # ""

\* A route_task call that has not started: pc is the place the call is at,
\* runs the outcomes of its function_caller.run calls, invoked the handler
\* invocations it made, result the dict it returned, error the exception
\* that left it.
NewCall(id, task) ==
    [id |-> id, task |-> task, pc |-> "queued", runs |-> <<>>, invoked |-> <<>>,
     result |-> None, error |-> None]

BossResponse(c) == c.runs[Len(c.runs)].value

\* Variant of FinalTask: line 173, which the source has commented out.
FinalTaskModified(task, boss_response) ==
    IF Truthy(boss_response.modified_task) THEN boss_response.modified_task[1] ELSE task

\* final_task = task  (line 174)
FinalTask(task, boss_response) == task

\* Variant of BuildResult that reports the handler's id as agent_name.
BuildResultAgentId(c, boss_response, selected_agent, final_task, agent_response) ==
    [id |-> c.id,
     task |-> [original |-> c.task,
               modified |-> IF Truthy(boss_response.modified_task)
                            THEN Some(final_task) ELSE None],
     boss_decision |-> [selected_agent |-> boss_response.selected_agent,
                        reasoning |-> boss_response.reasoning],
     execution |-> [agent_name |-> selected_agent.id,
                    agent_id |-> selected_agent.id,
                    was_executed |-> execute_task,
                    response |-> IF execute_task THEN agent_response ELSE None,
                    execution_time |-> IF execute_task THEN Some("elapsed") ELSE None]]

\* The result dict of lines 197-224 (timestamp and total_time are left out).
BuildResult(c, boss_response, selected_agent, final_task, agent_response) ==
    [id |-> c.id,
     task |-> [original |-> c.task,
               modified |-> IF Truthy(boss_response.modified_task)
                            THEN Some(final_task) ELSE None],
     boss_decision |-> [selected_agent |-> boss_response.selected_agent,
                        reasoning |-> boss_response.reasoning],
     execution |-> [agent_name |-> selected_agent.name,
                    agent_id |-> selected_agent.id,
                    was_executed |-> execute_task,
                    response |-> IF execute_task THEN agent_response ELSE None,
                    execution_time |-> IF execute_task THEN Some("elapsed") ELSE None]]

Raise(conv, c, exception) ==
    [conversation |-> conv,
     call |-> [c EXCEPT !.pc = "raised", !.error = Some(exception)]]

\* Variant of SelectAgent that falls back to a registered handler instead of
\* raising.
SelectAgentCoerced(boss_response) ==
    IF boss_response.selected_agent \notin DOMAIN agents
    THEN Some(agents[CHOOSE n \in DOMAIN agents : TRUE])
    ELSE Some(agents[boss_response.selected_agent])

\* Variant of ExecuteEnabled that ignores the flag.
ExecuteAlways == TRUE

\* Line 181: if self.execute_task.
ExecuteEnabled == execute_task

\* Lines 163-170: the selected agent must be a key of self.agents (ValueError,
\* here None, otherwise); the handler registered under that name.
SelectAgent(boss_response) ==
    IF boss_response.selected_agent \notin DOMAIN agents
    THEN None
    ELSE Some(agents[boss_response.selected_agent])

\* Variant of StepUser in which route_task starts a conversation of its own:
\* the turns added before are dropped.
StepUserFresh(conv, c) ==
    [conversation |-> <<Turn("user", <<c.task>>, c.id)>>,
     call |-> [c EXCEPT !.pc = "decide"]]

\* Line 151: the task is added as a user turn.
StepUser(conv, c) ==
    [conversation |-> Append(conv, Turn("user", <<c.task>>, c.id)),
     call |-> [c EXCEPT !.pc = "decide"]]

\* Variant of StepDecide that validates the decision before it adds the
\* assistant turn, so that a call failing in validation leaves the user turn
\* only.
StepDecideValidateFirst(conv, c) ==
    LET run == Run(c.task)
        c1 == [c EXCEPT !.runs = Append(@, run)]
        boss_response == run.value
        conv1 == Append(conv, Turn("assistant", AnyToStr(boss_response), c.id))
    IN
    IF run.raised THEN Raise(conv, c1, "Exception")
    ELSE IF boss_response = None THEN Raise(conv, c1, "AttributeError")
    ELSE IF SelectAgent(boss_response[1]) = None
    THEN Raise(conv, c1, "ValueError")
    ELSE IF ExecuteEnabled
    THEN [conversation |-> conv1, call |-> [c1 EXCEPT !.pc = "execute"]]
    ELSE [conversation |-> conv1,
          call |-> [c1 EXCEPT
                      !.pc = "returned",
                      !.result = Some(BuildResult(c1, boss_response[1],
                                          SelectAgent(boss_response[1])[1],
                                          FinalTask(c.task, boss_response[1]), None))]]

\* Lines 155-170 (and 190-229 when execution is disabled): the boss decision
\* is asked of the Model Caller, its assistant turn is added, the selected
\* agent is validated.
StepDecide(conv, c) ==
    LET run == Run(c.task)
        c1 == [c EXCEPT !.runs = Append(@, run)]
        boss_response == run.value
        conv1 == Append(conv, Turn("assistant", AnyToStr(boss_response), c.id))
    IN
    IF run.raised THEN Raise(conv, c1, "Exception")
    ELSE IF boss_response = None THEN Raise(conv1, c1, "AttributeError")
    ELSE IF SelectAgent(boss_response[1]) = None
    THEN Raise(conv1, c1, "ValueError")
    ELSE IF ExecuteEnabled
    THEN [conversation |-> conv1, call |-> [c1 EXCEPT !.pc = "execute"]]
    ELSE [conversation |-> conv1,
          call |-> [c1 EXCEPT
                      !.pc = "returned",
                      !.result = Some(BuildResult(c1, boss_response[1],
                                          SelectAgent(boss_response[1])[1],
                                          FinalTask(c.task, boss_response[1]), None))]]

\* Variant of StepExecute that answers a handler's exception with an empty
\* response instead of letting it leave route_task.
StepExecuteFallback(conv, c) ==
    LET boss_response == BossResponse(c)[1]
        selected_agent == SelectAgent(boss_response)[1]
        final_task == FinalTask(c.task, boss_response)
        agent_response == HandlerRun(selected_agent, final_task)
        c1 == [c EXCEPT !.invoked = Append(@, [agent |-> selected_agent, arg |-> final_task])]
    IN
    [conversation |-> Append(conv, Turn(selected_agent.name, agent_response.value, c.id)),
     call |-> [c1 EXCEPT
                 !.pc = "returned",
                 !.result = Some(BuildResult(c1, boss_response, selected_agent,
                                     final_task, Some(agent_response.value)))]]

\* Lines 181-229: the handler runs, its turn is added, the result is built.
StepExecute(conv, c) ==
    LET boss_response == BossResponse(c)[1]
        selected_agent == SelectAgent(boss_response)[1]
        final_task == FinalTask(c.task, boss_response)
        agent_response == HandlerRun(selected_agent, final_task)
        c1 == [c EXCEPT !.invoked = Append(@, [agent |-> selected_agent, arg |-> final_task])]
    IN
    IF agent_response.raised THEN Raise(conv, c1, "HandlerError")
    ELSE [conversation |-> Append(conv, Turn(selected_agent.name, agent_response.value, c.id)),
          call |-> [c1 EXCEPT
                      !.pc = "returned",
                      !.result = Some(BuildResult(c1, boss_response, selected_agent,
                                          final_task, Some(agent_response.value)))]]

\* The next step of a route_task call, by the place it is at.
Step(conv, c) ==
    CASE c.pc = "queued"  -> StepUser(conv, c)
      [] c.pc = "decide"  -> StepDecide(conv, c)
      [] c.pc = "execute" -> StepExecute(conv, c)

Terminal(c) == c.pc \in {"returned", "raised"}

\* except Exception (lines 231, 250, 269): every exception of the model is
\* an Exception.
IsException(error) ==
    error \in {"Exception", "AttributeError", "ValueError", "HandlerError"}

\* Variant of Collect without the except clause: the exception of a failed
\* call leaves the loop.
CollectAbort(o, c) ==
    IF c.pc = "returned" THEN [o EXCEPT !.results = Append(@, c.result[1])]
    ELSE [o EXCEPT !.status = "raised"]

\* Lines 247-251 and 266-270: the result of a finished call is appended to
\* results; its exception is caught and logged.  o is the operation record.
Collect(o, c) ==
    IF c.pc = "returned" THEN [o EXCEPT !.results = Append(@, c.result[1])]
    ELSE IF IsException(c.error[1]) THEN o
    ELSE [o EXCEPT !.status = "raised"]

\* route_task run by one thread from its start to its end (lines 150-233).
RECURSIVE RouteTask(_, _)
RouteTask(conv, c) ==
    IF Terminal(c) THEN [conversation |-> conv, call |-> c]
    ELSE LET s == Step(conv, c) IN RouteTask(s.conversation, s.call)

\* batch_run as a function of its task list (lines 243-252): o is the
\* operation record, whose results the function returns.
RECURSIVE BatchRun(_, _, _)
BatchRun(o, conv, tasks) ==
    IF tasks = <<>> \/ o.status = "raised" THEN o
    ELSE LET r == RouteTask(conv, NewCall(0, Head(tasks))) IN
         BatchRun(Collect(o, r.call), r.conversation, Tail(tasks))

-----------------------------------------------------------------------------
(* The caller: one operation at a time on one router and its Model Caller. *)

TaskLists(n) == UNION {[1 .. k -> Tasks] : k \in 0 .. n}

\* ThreadPoolExecutor() of line 260: max_workers defaults to
\* min(32, os.cpu_count() + 4), which is 5 on a machine with one processor.
DefaultMaxWorkers == 5

Idle == op.status # "running" /\ fc.status # "running"

NoOp == [kind |-> "none", tasks |-> <<>>, first |-> 1, status |-> "idle",
         results |-> <<>>, pending |-> {}]

NoFc == [kind |-> "none", tasks |-> <<>>, status |-> "idle",
         futures |-> <<>>, results |-> <<>>]

\* A pool that was not made, a reply that was not given, a session that
\* has not started.
NoPool == [status |-> "none", cpu_count |-> 1, work |-> <<>>]

NoReply == [status |-> "none"]

NoSession == [status |-> "none"]

\* MultiAgentRouter.__init__ with the handler list and the execute flag.
Constructed(list, flag) ==
    /\ agents = Registry(list)
    /\ execute_task = flag
    /\ conversation = <<>>
    /\ calls = <<>>
    /\ op = NoOp
    /\ fc = NoFc
    /\ submitted = 0

Init ==
    /\ \E list \in AgentLists, flag \in BOOLEAN : Constructed(list, flag)
    /\ pool = NoPool
    /\ reply = NoReply
    /\ session = NoSession

\* run / __call__ (lines 235-241): route_task is entered with the task.
RouteTaskCall ==
    /\ Idle
    /\ submitted < MaxCalls
    /\ \E task \in Tasks :
        /\ calls' = Append(calls, NewCall(Len(calls) + 1, task))
        /\ op' = [kind |-> "route_task", tasks |-> <<task>>, first |-> Len(calls) + 1,
                  status |-> "running", results |-> <<>>, pending |-> {}]
        /\ submitted' = submitted + 1
        /\ UNCHANGED <<pool, reply, session, agents, execute_task, conversation, fc>>

\* The caller's thread takes the next step of its route_task call; when the
\* call ends, route_task returns its result or raises to the caller.
RouteTaskStep ==
    /\ op.kind = "route_task"
    /\ op.status = "running"
    /\ \E s \in {Step(conversation, calls[Len(calls)])} :
        /\ conversation' = s.conversation
        /\ calls' = [calls EXCEPT ![Len(calls)] = s.call]
        /\ op' = IF Terminal(s.call)
                 THEN [op EXCEPT !.status = s.call.pc, !.results = s.call.result]
                 ELSE op
    /\ UNCHANGED <<pool, reply, session, agents, execute_task, fc, submitted>>

\* batch_run called by the caller (line 245).
BatchRunCall ==
    /\ Idle
    /\ \E tasks \in TaskLists(MaxCalls - submitted) :
        /\ op' = [kind |-> "batch_run", tasks |-> tasks, first |-> Len(calls) + 1,
                  status |-> IF tasks = <<>> THEN "returned" ELSE "running",
                  results |-> <<>>, pending |-> {}]
        /\ submitted' = submitted + Len(tasks)
        /\ UNCHANGED <<pool, reply, session, agents, execute_task, conversation, calls, fc>>

\* The number of tasks of the running batch_run whose route_task was entered.
Entered == Len(calls) - op.first + 1

\* for task in tasks (lines 246-248): route_task is entered with the next task.
BatchRunNext ==
    /\ op.kind = "batch_run"
    /\ op.status = "running"
    /\ Entered < Len(op.tasks)
    /\ Entered > 0 => Terminal(calls[Len(calls)])
    /\ calls' = Append(calls, NewCall(Len(calls) + 1, op.tasks[Entered + 1]))
    /\ UNCHANGED <<pool, reply, session, agents, execute_task, conversation, op, fc, submitted>>

\* Lines 248-252: the next step of the current route_task call; when the call
\* ends its result is collected, and after the last task results is returned.
BatchRunStep ==
    /\ op.kind = "batch_run"
    /\ op.status = "running"
    /\ Entered > 0
    /\ ~Terminal(calls[Len(calls)])
    /\ \E s \in {Step(conversation, calls[Len(calls)])} :
        /\ conversation' = s.conversation
        /\ calls' = [calls EXCEPT ![Len(calls)] = s.call]
        /\ op' = IF ~Terminal(s.call) THEN op
                 ELSE LET o == Collect(op, s.call) IN
                      IF o.status = "running" /\ Entered = Len(op.tasks)
                      THEN [o EXCEPT !.status = "returned"]
                      ELSE o
    /\ UNCHANGED <<pool, reply, session, agents, execute_task, fc, submitted>>

\* The calls of the operation o, by number: task k is call o.first + k - 1.
CallsOf(o) == o.first .. o.first + Len(o.tasks) - 1

OpCalls == CallsOf(op)

\* Variant of Futures that leaves out the future of the last task.
FuturesShort(first, tasks) == first .. first + Len(tasks) - 2

\* Lines 261-265: the futures handed to as_completed, one per task.
Futures(first, tasks) == first .. first + Len(tasks) - 1

\* concurrent_batch_run, lines 259-264: every task is submitted to the pool.
ConcurrentBatchRunCall ==
    /\ Idle
    /\ \E tasks \in TaskLists(MaxCalls - submitted) :
        /\ calls' = calls \o [i \in 1 .. Len(tasks) |-> NewCall(Len(calls) + i, tasks[i])]
        /\ op' = [kind |-> "concurrent_batch_run", tasks |-> tasks, first |-> Len(calls) + 1,
                  status |-> IF Futures(Len(calls) + 1, tasks) = {}
                             THEN "returned" ELSE "running",
                  results |-> <<>>,
                  pending |-> Futures(Len(calls) + 1, tasks)]
        /\ submitted' = submitted + Len(tasks)
        /\ UNCHANGED <<pool, reply, session, agents, execute_task, conversation, fc>>

Running == {i \in OpCalls : calls[i].pc \in {"decide", "execute"}}

\* A pool thread takes the next step of the route_task call it runs; a queued
\* call starts when a thread of the pool is free.
Worker ==
    /\ op.kind = "concurrent_batch_run"
    /\ op.status = "running"
    /\ \E i \in OpCalls :
        /\ ~Terminal(calls[i])
        /\ calls[i].pc = "queued" => Cardinality(Running) < DefaultMaxWorkers
        /\ \E s \in {Step(conversation, calls[i])} :
            /\ conversation' = s.conversation
            /\ calls' = [calls EXCEPT ![i] = s.call]
        /\ UNCHANGED <<pool, reply, session, agents, execute_task, op, fc, submitted>>

\* Lines 265-271: as_completed yields a finished future and its result is
\* collected.  After the last one the pool is shut down and results is
\* returned.
AsCompleted ==
    /\ op.kind = "concurrent_batch_run"
    /\ op.status = "running"
    /\ \E i \in op.pending :
        /\ Terminal(calls[i])
        /\ LET o == Collect([op EXCEPT !.pending = @ \ {i}], calls[i]) IN
            op' = IF o.status = "running" /\ o.pending = {}
                  THEN [o EXCEPT !.status = "returned"]
                  ELSE o
        /\ UNCHANGED <<pool, reply, session, agents, execute_task, conversation, calls, fc, submitted>>

\* LiteLLMFunctionCaller.batch_run: [self.run(task) for task in tasks].
RECURSIVE FcBatchRun(_)
FcBatchRun(tasks) ==
    IF tasks = <<>> THEN [raised |-> FALSE, results |-> <<>>]
    ELSE LET run == Run(Head(tasks))
             rest == FcBatchRun(Tail(tasks))
         IN IF run.raised \/ rest.raised
            THEN [raised |-> TRUE, results |-> <<>>]
            ELSE [raised |-> FALSE, results |-> <<run.value>> \o rest.results]

\* LiteLLMFunctionCaller.batch_run called by the caller (lines 59-60).
FcBatchRunCall ==
    /\ Idle
    /\ \E tasks \in TaskLists(MaxCalls - submitted) :
        /\ \E r \in {FcBatchRun(tasks)} :
            fc' = [kind |-> "batch_run", tasks |-> tasks,
                   status |-> IF r.raised THEN "raised" ELSE "returned",
                   futures |-> <<>>, results |-> r.results]
        /\ submitted' = submitted + Len(tasks)
        /\ UNCHANGED <<pool, reply, session, agents, execute_task, conversation, calls, op>>

\* ThreadPoolExecutor(max_workers): ValueError unless max_workers > 0.
PoolCreated(max_workers) == max_workers > 0

\* LiteLLMFunctionCaller.concurrent_run, lines 63-64: the pool is made with
\* max_workers = len(tasks) and executor.map submits every task.
FcConcurrentRunCall ==
    /\ Idle
    /\ \E tasks \in TaskLists(MaxCalls - submitted) :
        /\ fc' = IF PoolCreated(Len(tasks))
                 THEN [kind |-> "concurrent_run", tasks |-> tasks, status |-> "running",
                       futures |-> [i \in 1 .. Len(tasks) |->
                                       [done |-> FALSE, raised |-> FALSE, value |-> None]],
                       results |-> <<>>]
                 ELSE [kind |-> "concurrent_run", tasks |-> tasks, status |-> "raised",
                       futures |-> <<>>, results |-> <<>>]
        /\ submitted' = submitted + Len(tasks)
        /\ UNCHANGED <<pool, reply, session, agents, execute_task, conversation, calls, op>>

\* A pool thread runs self.run(task) for one submitted task.
FcWorker ==
    /\ fc.status = "running"
    /\ \E i \in DOMAIN fc.futures :
        /\ ~fc.futures[i].done
        /\ \E run \in {Run(fc.tasks[i])} :
            fc' = [fc EXCEPT !.futures[i] =
                      [done |-> TRUE, raised |-> run.raised, value |-> run.value]]
        /\ UNCHANGED <<pool, reply, session, agents, execute_task, conversation, calls, op, submitted>>

\* The future whose result list(executor.map(...)) takes next.
MapNext(f) == Len(f.results) + 1

\* list(executor.map(...)) takes the result of the next future once it is
\* done; after the last one the list is returned.
FcMapResult ==
    /\ fc.status = "running"
    /\ LET i == MapNext(fc) IN
        /\ i \in DOMAIN fc.futures
        /\ fc.futures[i].done
        /\ fc' = IF fc.futures[i].raised
                 THEN [fc EXCEPT !.status = "raised"]
                 ELSE [fc EXCEPT
                         !.results = Append(@, fc.futures[i].value),
                         !.status = IF Len(fc.results) + 1 = Len(fc.tasks)
                                    THEN "returned" ELSE @]
    /\ UNCHANGED <<pool, reply, session, agents, execute_task, conversation, calls, op, submitted>>

Next ==
    \/ RouteTaskCall
    \/ RouteTaskStep
    \/ BatchRunCall
    \/ BatchRunNext
    \/ BatchRunStep
    \/ ConcurrentBatchRunCall
    \/ Worker
    \/ AsCompleted

Spec == Init /\ [][Next]_vars

FcNext ==
    \/ FcBatchRunCall
    \/ FcConcurrentRunCall
    \/ FcWorker
    \/ FcMapResult

\* The Model Caller used on its own.
FcSpec == Init /\ [][FcNext]_vars

-----------------------------------------------------------------------------
(* The thread pool of concurrent_batch_run on its own: a route_task call   *)
(* is a work item that is queued, run by a pool thread, and done.          *)

\* The largest number of tasks handed to one concurrent_batch_run here, and
\* the largest number of processors of the machine.
MaxPoolTasks == 7

MaxCpuCount == 2

Min(a, b) == IF a < b THEN a ELSE b

\* ThreadPoolExecutor() of line 260 is made without max_workers, which then
\* is min(32, (os.cpu_count() or 1) + 4).
MaxWorkers(cpu_count) == Min(32, cpu_count + 4)

\* Variant of PoolSize with the pool made as the Model Caller's
\* concurrent_run makes it: max_workers = len(tasks).
PoolSizeTaskCount(p) == Len(p.work)

\* The number of threads the pool of the operation may have.
PoolSize(p) == MaxWorkers(p.cpu_count)

PoolInit ==
    /\ \E list \in AgentLists, flag \in BOOLEAN : Constructed(list, flag)
    /\ \E n \in 1 .. MaxCpuCount : pool = [status |-> "idle", cpu_count |-> n, work |-> <<>>]
    /\ reply = NoReply
    /\ session = NoSession

\* Lines 259-264: the pool is made and every task is submitted to it.
PoolSubmit ==
    /\ pool.status # "running"
    /\ \E k \in 0 .. MaxPoolTasks :
        pool' = [pool EXCEPT !.status = IF k = 0 THEN "returned" ELSE "running",
                             !.work = [i \in 1 .. k |-> "queued"]]
    /\ UNCHANGED <<routerVars, reply, session>>

PoolRunning(p) == {i \in DOMAIN p.work : p.work[i] = "running"}

PoolQueued(p) == {i \in DOMAIN p.work : p.work[i] = "queued"}

\* A free thread of the pool takes the work item queued first.
PoolStart ==
    /\ pool.status = "running"
    /\ PoolQueued(pool) # {}
    /\ Cardinality(PoolRunning(pool)) < PoolSize(pool)
    /\ LET i == CHOOSE j \in PoolQueued(pool) : \A l \in PoolQueued(pool) : j <= l IN
        pool' = [pool EXCEPT !.work[i] = "running"]
    /\ UNCHANGED <<routerVars, reply, session>>

\* A route_task call ends; after the last one the pool is shut down and
\* concurrent_batch_run returns (lines 265-271).
PoolFinish ==
    /\ pool.status = "running"
    /\ \E i \in PoolRunning(pool) :
        LET work == [pool.work EXCEPT ![i] = "done"] IN
        pool' = [pool EXCEPT !.work = work,
                             !.status = IF \A j \in DOMAIN work : work[j] = "done"
                                        THEN "returned" ELSE @]
    /\ UNCHANGED <<routerVars, reply, session>>

PoolNext ==
    \/ PoolSubmit
    \/ PoolStart
    \/ PoolFinish

PoolSpec == PoolInit /\ [][PoolNext]_vars

-----------------------------------------------------------------------------
(* run of the Model Caller on one reply given bare and given in a fence.   *)

\* The largest number of members of the JSON object of a reply.
MaxMembers == 2

\* The texts of the JSON objects of at most n members.
ObjectTexts(n) ==
    {<<"{">> \o m \o <<"}">> : m \in UNION {[1 .. k -> MemberTokens] : k \in 0 .. n}}

\* The whitespace that stands between a fence and the object.
Separators == {<<>>, <<"\n">>, <<" ">>, <<"\r", "\n">>}

\* The object text J in a leading json fence and a trailing fence.
Fenced(J, before, after) == FenceJson \o before \o J \o after \o Fence

\* run for a task the completion endpoint answers with content (lines 41-56).
RunReply(content) ==
    LET body == ParseContent(content) IN
    IF body.raised THEN [raised |-> FALSE, value |-> None] ELSE body

FenceInit ==
    /\ \E list \in AgentLists, flag \in BOOLEAN : Constructed(list, flag)
    /\ pool = NoPool
    /\ \E J \in ObjectTexts(MaxMembers), before \in Separators, after \in Separators :
        reply = [status |-> "given", bare |-> J, fenced |-> Fenced(J, before, after),
                 of_bare |-> None, of_fenced |-> None]
    /\ session = NoSession

\* run on the task answered with the bare object text.
RunBare ==
    /\ reply.of_bare = None
    /\ \E run \in {RunReply(reply.bare)} : reply' = [reply EXCEPT !.of_bare = Some(run)]
    /\ UNCHANGED <<routerVars, pool, session>>

\* run on the task answered with the fenced object text.
RunFenced ==
    /\ reply.of_fenced = None
    /\ \E run \in {RunReply(reply.fenced)} : reply' = [reply EXCEPT !.of_fenced = Some(run)]
    /\ UNCHANGED <<routerVars, pool, session>>

FenceNext ==
    \/ RunBare
    \/ RunFenced

FenceSpec == FenceInit /\ [][FenceNext]_vars

-----------------------------------------------------------------------------
(* The chat session of main.py.  Every interaction of the user runs the    *)
(* script once, from the upload block (lines 52-62) to the query block     *)
(* (lines 65-116), on st.session_state.  An uploaded file is known by the  *)
(* number of its upload: two UploadedFile values are equal when they are   *)
(* of the same upload; readable tells whether PIL can open it as an image. *)
(* The temporary file written for an upload is named by the number of the  *)
(* upload too.  uploader is the value of the file uploader,                *)
(* uploads the number of uploads made; events is the log of the script     *)
(* runs, kept for the properties.  These three are no part of              *)
(* st.session_state.                                                       *)

\* The largest number of script runs of one session.
MaxScriptRuns == 5

Queries == {"q1", "q2"}

\* Variant of GetResponse that ignores the extraction it is given.
GetResponseAlwaysExtract(image_path, query, extraction, extract_ok, answer_ok) ==
    LET extracted == Some(<<"extraction", image_path, query>>) IN
    [extract_called |-> TRUE,
     raised |-> ~extract_ok \/ ~answer_ok,
     answer |-> <<"answer", query>>,
     extraction |-> extracted]

\* get_response (lines 7-25).  extract_ok and answer_ok tell whether
\* extract_agent.run, and the router and the recommendation after it, return
\* or raise.
GetResponse(image_path, query, extraction, extract_ok, answer_ok) ==
    LET called == extraction = None
        extracted == IF called THEN Some(<<"extraction", image_path, query>>) ELSE extraction
    IN
    [extract_called |-> called,
     raised |-> (called /\ ~extract_ok) \/ ~answer_ok,
     answer |-> <<"answer", query>>,
     extraction |-> extracted]

\* Lines 52-62: the upload block on the value of the uploader.  raised tells
\* whether PIL.Image.open of line 61 has raised, which ends the script run.
UploadBlock(s, new_image_file) ==
    [session |-> IF new_image_file # None /\ s.new_image_file # new_image_file
                 THEN [s EXCEPT !.image_path = Some(new_image_file[1].id),
                                !.extraction = None,
                                !.chat_history = <<>>,
                                !.new_image_file = new_image_file]
                 ELSE s,
     raised |-> new_image_file # None /\ ~new_image_file[1].readable]

\* Lines 65-116: the query block on a query the user has sent.
QueryBlock(s, user_query, extract_ok, answer_ok) ==
    LET r == GetResponse(s.image_path[1], user_query, s.extraction, extract_ok, answer_ok)
        asked == [s EXCEPT !.chat_history = Append(@, [sender |-> "human", message |-> <<user_query>>])]
        event == [kind |-> "query", file |-> s.image_path, changed |-> FALSE,
                  cached |-> s.extraction # None, processed |-> s.image_path # None,
                  extracted |-> FALSE, answered |-> FALSE]
    IN
    IF s.image_path = None
    THEN [s EXCEPT !.events = Append(@, event)]
    ELSE IF r.raised
    THEN [asked EXCEPT !.events = Append(@, [event EXCEPT !.extracted = r.extract_called])]
    ELSE [asked EXCEPT
            !.extraction = IF @ = None THEN r.extraction ELSE @,
            !.chat_history = Append(@, [sender |-> "assistant", message |-> r.answer]),
            !.events = Append(@, [event EXCEPT !.extracted = r.extract_called,
                                               !.answered = TRUE])]

\* Lines 35-43: the session state of a session that begins.
MainInit ==
    /\ \E list \in AgentLists, flag \in BOOLEAN : Constructed(list, flag)
    /\ pool = NoPool
    /\ reply = NoReply
    /\ session = [status |-> "started", image_path |-> None, extraction |-> None,
                  chat_history |-> <<>>, new_image_file |-> None,
                  uploader |-> None, uploads |-> 0, events |-> <<>>]

\* The event of a script run without a query; changed tells whether the
\* upload block has taken a new file.
UploadEvent(s, changed) ==
    [kind |-> "upload", file |-> s.image_path, changed |-> changed,
     cached |-> s.extraction # None, processed |-> FALSE,
     extracted |-> FALSE, answered |-> FALSE]

\* The user uploads a file: the script runs with the new file in the
\* uploader and without a query.
UploadImage ==
    /\ session.status = "started"
    /\ Len(session.events) < MaxScriptRuns
    /\ \E readable \in BOOLEAN :
        LET new_image_file == Some([id |-> session.uploads + 1, readable |-> readable])
            s == UploadBlock(session, new_image_file).session
        IN session' = [s EXCEPT !.uploader = new_image_file,
                                !.uploads = @ + 1,
                                !.events = Append(@, UploadEvent(s, s # session))]
    /\ UNCHANGED <<routerVars, pool, reply>>

\* The user takes the file out of the uploader: the script runs with an
\* empty uploader and without a query.
RemoveImage ==
    /\ session.status = "started"
    /\ Len(session.events) < MaxScriptRuns
    /\ session.uploader # None
    /\ LET s == UploadBlock(session, None).session IN
       session' = [s EXCEPT !.uploader = None,
                            !.events = Append(@, UploadEvent(s, s # session))]
    /\ UNCHANGED <<routerVars, pool, reply>>

\* The user sends a query: the script runs with the uploader as it is, and
\* gets to the query block unless the upload block raises.
SubmitQuery ==
    /\ session.status = "started"
    /\ Len(session.events) < MaxScriptRuns
    /\ \E user_query \in Queries, extract_ok \in BOOLEAN, answer_ok \in BOOLEAN :
        LET u == UploadBlock(session, session.uploader) IN
        session' = IF u.raised
                   THEN [u.session EXCEPT !.events =
                            Append(@, [UploadEvent(u.session, u.session # session)
                                          EXCEPT !.kind = "query"])]
                   ELSE QueryBlock(u.session, user_query, extract_ok, answer_ok)
    /\ UNCHANGED <<routerVars, pool, reply>>

MainNext ==
    \/ UploadImage
    \/ RemoveImage
    \/ SubmitQuery

MainSpec == MainInit /\ [][MainNext]_vars

-----------------------------------------------------------------------------
(* Properties                                                              *)

Returned(c) == c.pc = "returned"

\* The TaskRecords route_task has returned so far.
Records == {calls[i].result[1] : i \in {j \in DOMAIN calls : Returned(calls[j])}}

\* The call received a decision whose selected agent is a key of the registry.
ValidDecision(c) ==
    /\ c.runs # <<>>
    /\ BossResponse(c) # None
    /\ BossResponse(c)[1].selected_agent \in DOMAIN agents

\* The call received a decision whose selected agent is no key of the registry.
UnknownDecision(c) ==
    /\ c.runs # <<>>
    /\ BossResponse(c) # None
    /\ BossResponse(c)[1].selected_agent \notin DOMAIN agents

\* The turns of the conversation that a handler's response was added as.
HandlerTurns(i) ==
    {k \in DOMAIN conversation :
        conversation[k].call = i /\ conversation[k].role \notin {"user", "assistant"}}

\* C1: whenever route_task returns a TaskRecord, with execution enabled or
\* disabled, its boss_decision.selected_agent is one of the registered handler
\* names and its execution.agent_name is that same name.
C1_SelectedAgentIsRegistered ==
    /\ \A r \in Records :
        /\ r.boss_decision.selected_agent \in DOMAIN agents
        /\ r.execution.agent_name = r.boss_decision.selected_agent
    /\ \A k \in DOMAIN op.results :
        /\ op.results[k].boss_decision.selected_agent \in DOMAIN agents
        /\ op.results[k].execution.agent_name = op.results[k].boss_decision.selected_agent

\* A route_task call has returned the record of handler B to its caller.
C1_Witness ==
    /\ op.kind = "route_task"
    /\ op.status = "returned"
    /\ op.results[1].execution.agent_name = "B"
    /\ op.results[1].execution.agent_id = "b1"

\* C2: if the decision names an agent that is no key of the registry,
\* route_task raises to its caller, returns no TaskRecord and invokes no
\* handler for that call.
C2_UnknownAgentRaises ==
    /\ \A i \in DOMAIN calls :
        UnknownDecision(calls[i]) =>
            /\ calls[i].pc = "raised"
            /\ calls[i].result = None
            /\ calls[i].invoked = <<>>
            /\ HandlerTurns(i) = {}
    /\ (op.kind = "route_task" /\ UnknownDecision(calls[op.first])) =>
            op.status = "raised" /\ op.results = <<>>

\* A route_task call whose decision selected the unregistered B has raised
\* ValueError to its caller.
C2_Witness ==
    /\ op.kind = "route_task"
    /\ op.status = "raised"
    /\ UnknownDecision(calls[op.first])
    /\ calls[op.first].error = Some("ValueError")

\* The task texts whose reply cannot be decoded: t_bad is answered with text
\* that is no JSON, t_schema with a JSON object that fails the schema.
UndecodableTasks == {"t_bad", "t_schema"}

\* C3: when the reply cannot be parsed as JSON or fails schema validation,
\* run does not raise but returns None, and the route_task call given that
\* None raises to its caller, returns no TaskRecord and executes no handler.
C3_DecodeErrorIsRoutingFailure ==
    /\ \A i \in DOMAIN calls :
        (calls[i].task \in UndecodableTasks /\ calls[i].runs # <<>>) =>
            /\ Len(calls[i].runs) = 1
            /\ ~calls[i].runs[1].raised
            /\ calls[i].runs[1].value = None
            /\ calls[i].pc = "raised"
            /\ calls[i].result = None
            /\ calls[i].invoked = <<>>
    /\ (/\ op.kind = "route_task"
        /\ op.tasks[1] \in UndecodableTasks
        /\ op.status # "running") =>
            op.status = "raised" /\ op.results = <<>>

\* Both kinds of decode error have ended a route_task call of one batch.
C3_Witness ==
    \E i, j \in DOMAIN calls :
        /\ calls[i].task = "t_bad"
        /\ calls[j].task = "t_schema"
        /\ calls[i].error = Some("AttributeError")
        /\ calls[j].error = Some("AttributeError")
        /\ ~calls[j].runs[1].raised
        /\ calls[j].runs[1].value = None

\* The records of the returned calls among calls first .. first + n - 1, in
\* the order of the calls.
RECURSIVE ReturnedRecords(_, _)
ReturnedRecords(first, n) ==
    IF n = 0 THEN <<>>
    ELSE LET c == calls[first + n - 1] IN
         ReturnedRecords(first, n - 1) \o (IF Returned(c) THEN c.result ELSE <<>>)

\* C4: batch_run never raises because of a failing task; it returns exactly
\* the TaskRecords of the tasks whose route_task succeeded, in input order,
\* a failing task is left out, and every task after a failing one is still
\* routed.
C4_BatchRunIsolatesFailures ==
    op.kind = "batch_run" =>
        /\ op.status # "raised"
        /\ op.status = "returned" =>
            /\ Len(calls) = op.first + Len(op.tasks) - 1
            /\ \A k \in DOMAIN op.tasks :
                /\ calls[op.first + k - 1].task = op.tasks[k]
                /\ Terminal(calls[op.first + k - 1])
            /\ op.results = ReturnedRecords(op.first, Len(op.tasks))

\* batch_run has returned one record for two tasks: the first task failed in
\* route_task, the second was routed after it and succeeded.
C4_Witness ==
    /\ op.kind = "batch_run"
    /\ op.status = "returned"
    /\ Len(op.tasks) = 2
    /\ calls[op.first].pc = "raised"
    /\ calls[op.first + 1].pc = "returned"
    /\ op.results = <<calls[op.first + 1].result[1]>>

\* What the claim compares of a TaskRecord.
Outcome(r) ==
    [task |-> r.task.original,
     selected_agent |-> r.boss_decision.selected_agent,
     response |-> r.execution.response]

\* The records of a result list as an unordered collection of outcomes:
\* each outcome with the number of times it occurs.
OutcomeBag(results) ==
    [x \in {Outcome(results[k]) : k \in DOMAIN results} |->
        Cardinality({k \in DOMAIN results : Outcome(results[k]) = x})]

\* C5: under every interleaving of the worker threads concurrent_batch_run
\* does not raise and returns one record per successful task and none for a
\* failed one; as an unordered collection of (task, selected_agent, response)
\* its result equals the result of batch_run on the same task list.
C5_ConcurrentEqualsBatch ==
    op.kind = "concurrent_batch_run" =>
        /\ op.status # "raised"
        /\ op.status = "returned" =>
            /\ \A i \in CallsOf(op) : Terminal(calls[i])
            /\ Len(op.results) = Cardinality({i \in CallsOf(op) : Returned(calls[i])})
            /\ OutcomeBag(op.results)
                 = OutcomeBag(BatchRun([NoOp EXCEPT !.status = "running"], <<>>, op.tasks).results)

\* concurrent_batch_run has returned the records of two executed tasks in the
\* order opposite to the input order.
C5_Witness ==
    /\ op.kind = "concurrent_batch_run"
    /\ op.status = "returned"
    /\ execute_task
    /\ Len(op.tasks) = 2
    /\ Len(op.results) = 2
    /\ op.results[1].id = op.first + 1
    /\ op.results[2].id = op.first

\* C6: for every ordered sequence of tasks, the empty one included, the
\* Model Caller's concurrent_run returns the same sequence as its batch_run:
\* as long as the input, slot i holding the result of run on task i, a failed
\* run kept as None at its position.
C6_ConcurrentRunEqualsBatchRun ==
    (fc.kind = "concurrent_run" /\ fc.status # "running") =>
        /\ fc.status = "returned"
        /\ fc.results = FcBatchRun(fc.tasks).results
        /\ Len(fc.results) = Len(fc.tasks)

\* C6 restricted to the task lists of at least one task, for which the pool
\* is created.
C6_NonEmptyConcurrentRunEqualsBatchRun ==
    (fc.kind = "concurrent_run" /\ fc.status # "running" /\ fc.tasks # <<>>) =>
        /\ fc.status = "returned"
        /\ fc.results = FcBatchRun(fc.tasks).results
        /\ Len(fc.results) = Len(fc.tasks)

\* concurrent_run has returned two results, a None first, although the run of
\* the second task ended before the run of the first.
C6_NonEmptyWitness ==
    /\ fc.kind = "concurrent_run"
    /\ fc.status = "returned"
    /\ fc.results[1] = None
    /\ fc.results[2] # None

C8_RecordStoresModifiedTask ==
    \A i \in DOMAIN calls :
        Returned(calls[i]) =>
            LET r == calls[i].result[1]
                proposed == BossResponse(calls[i])[1].modified_task
            IN
            /\ r.task.original = calls[i].task
            /\ Truthy(proposed) => r.task.modified = proposed
            /\ proposed = None => r.task.modified = None

\* What the record holds instead: task.modified is the original task text
\* whenever the decision proposed a non-empty modified task, None otherwise.
C8_RecordStoresOriginalAsModified ==
    \A i \in DOMAIN calls :
        Returned(calls[i]) =>
            LET r == calls[i].result[1]
                proposed == BossResponse(calls[i])[1].modified_task
            IN
            /\ r.task.original = calls[i].task
            /\ r.task.modified = IF Truthy(proposed) THEN Some(calls[i].task) ELSE None

\* C9: the execute flag fixed at construction governs every route_task call.
\* Disabled: no handler is invoked, no handler turn is added to the
\* conversation, and a returned TaskRecord has was_executed = FALSE with
\* response and execution_time None.  Enabled, with a valid decision: the
\* selected handler and no other is invoked, and a returned TaskRecord has
\* was_executed = TRUE.
C9_ExecuteFlagGoverns ==
    /\ ~execute_task =>
        /\ \A i \in DOMAIN calls : calls[i].invoked = <<>> /\ HandlerTurns(i) = {}
        /\ \A r \in Records :
            /\ r.execution.was_executed = FALSE
            /\ r.execution.response = None
            /\ r.execution.execution_time = None
    /\ execute_task =>
        /\ \A i \in DOMAIN calls :
            (Terminal(calls[i]) /\ ValidDecision(calls[i])) =>
                /\ Len(calls[i].invoked) = 1
                /\ calls[i].invoked[1].agent
                     = agents[BossResponse(calls[i])[1].selected_agent]
        /\ \A i \in DOMAIN calls :
            (Terminal(calls[i]) /\ ~ValidDecision(calls[i])) => calls[i].invoked = <<>>
        /\ \A r \in Records : r.execution.was_executed = TRUE

\* With execution disabled a route_task call has returned a TaskRecord for a
\* valid decision.
C9_Witness ==
    /\ ~execute_task
    /\ \E i \in DOMAIN calls :
        /\ Returned(calls[i])
        /\ ValidDecision(calls[i])
        /\ calls[i].result[1].execution.agent_name = "A"

\* C10: if the selected handler raises, the exception leaves route_task: no
\* TaskRecord is returned, no handler turn is added to the conversation, no
\* fallback response and no other handler is substituted.
C10_HandlerErrorPropagates ==
    /\ \A i \in DOMAIN calls :
        (calls[i].invoked # <<>> /\ calls[i].invoked[1].agent.id \in RaisingHandlers) =>
            /\ calls[i].pc = "raised"
            /\ calls[i].error = Some("HandlerError")
            /\ calls[i].result = None
            /\ Len(calls[i].invoked) = 1
            /\ HandlerTurns(i) = {}
    /\ (/\ op.kind = "route_task"
        /\ calls[op.first].invoked # <<>>
        /\ calls[op.first].invoked[1].agent.id \in RaisingHandlers) =>
            op.status = "raised" /\ op.results = <<>>

\* A route_task call has raised the exception of the handler it invoked.
C10_Witness ==
    /\ op.kind = "route_task"
    /\ op.status = "raised"
    /\ calls[op.first].invoked # <<>>
    /\ calls[op.first].error = Some("HandlerError")

\* The turns that call i has added, in their order in the conversation.
TurnsOf(i) ==
    LET AddedByCall(t) == t.call = i IN SelectSeq(conversation, AddedByCall)

\* The turns a call at its place is to have added: the user turn once it has
\* started, the assistant turn once the decision was received, the handler
\* turn once a handler was executed and the call returned.
ExpectedTurns(c) ==
    (IF c.pc = "queued" THEN <<>> ELSE <<Turn("user", <<c.task>>, c.id)>>)
    \o (IF c.runs = <<>> THEN <<>>
        ELSE <<Turn("assistant", AnyToStr(BossResponse(c)), c.id)>>)
    \o (IF Returned(c) /\ c.invoked # <<>>
        THEN <<Turn(c.invoked[1].agent.name, c.result[1].execution.response[1], c.id)>>
        ELSE <<>>)

\* The conversation has changed by turns added at its end only.
Appended ==
    /\ Len(conversation') >= Len(conversation)
    /\ SubSeq(conversation', 1, Len(conversation)) = conversation

\* C11: the conversation is append-only: no step changes, reorders or removes
\* a turn.  Every route_task call has added its turns in the order user
\* (the task), assistant (the stringified decision) and, only when a handler
\* was executed, the handler's turn; a failed call has added a prefix of
\* them, the assistant turn included when it failed in validation.  The
\* turns of sequential calls follow each other in the order of the calls.
C11_ConversationAppendOnly ==
    /\ [][Appended]_vars
    /\ [](\A i \in DOMAIN calls : TurnsOf(i) = ExpectedTurns(calls[i]))
    /\ [](op.kind \in {"route_task", "batch_run"} =>
            \A k, l \in DOMAIN conversation :
                (k < l /\ conversation[l].call \in OpCalls) =>
                    conversation[k].call <= conversation[l].call)

\* A batch_run has run two tasks: the first failed in validation and left its
\* user and assistant turns; the second added its three turns after them.
C11_Witness ==
    /\ op.kind = "batch_run"
    /\ op.status = "returned"
    /\ Len(op.tasks) = 2
    /\ calls[op.first].error = Some("ValueError") \/ calls[op.first].error = Some("AttributeError")
    /\ Len(TurnsOf(op.first)) = 2
    /\ Len(TurnsOf(op.first + 1)) = 3
    /\ conversation[Len(conversation)].role \in DOMAIN agents

\* C12: concurrent_batch_run hands its k tasks to a pool of k threads: all k
\* route_task calls can be in progress at the same time, and no task waits
\* for a free thread (whenever a task is queued, a thread is free for it).
C12_PoolSizedToTaskCount ==
    pool.status = "running" =>
        /\ PoolSize(pool) >= Len(pool.work)
        /\ PoolQueued(pool) # {} => Cardinality(PoolRunning(pool)) < PoolSize(pool)

\* What holds instead: the pool has min(32, cpu_count + 4) threads whatever
\* the number of tasks, and no more calls than that are in progress.
C12_PoolSizeIsDefault ==
    pool.status = "running" =>
        Cardinality(PoolRunning(pool)) <= Min(32, pool.cpu_count + 4)

\* Six tasks on a machine of one processor: five calls are in progress and
\* the sixth waits.
C12_TaskWaits ==
    /\ pool.status = "running"
    /\ pool.cpu_count = 1
    /\ Len(pool.work) = 6
    /\ Cardinality(PoolRunning(pool)) = 5
    /\ PoolQueued(pool) = {6}

\* The place of a turn among the turns of its call: user, assistant, handler.
Rank(t) ==
    CASE t.role = "user" -> 1
      [] t.role = "assistant" -> 2
      [] OTHER -> 3

NoSecondAttempt ==
    \A i \in DOMAIN calls :
        /\ Terminal(calls[i]) => calls'[i] = calls[i]
        /\ calls[i].runs # <<>> => calls'[i].runs = calls[i].runs
        /\ calls[i].invoked # <<>> => calls'[i].invoked = calls[i].invoked

\* C14: nothing is retried on the routing path.  Every run of the Model
\* Caller makes exactly one completion request; every route_task call makes
\* exactly one decision call and at most one handler invocation, whether it
\* succeeds or fails; after a failure the call is not attempted again, no
\* other handler is tried, and an operation routes each of its tasks once.
C14_NoRetry ==
    /\ [](\A i \in DOMAIN calls :
            /\ Len(calls[i].runs) <= 1
            /\ Len(calls[i].invoked) <= 1
            /\ \A k \in DOMAIN calls[i].runs : calls[i].runs[k].requests = <<calls[i].task>>
            /\ Terminal(calls[i]) => Len(calls[i].runs) = 1
            /\ calls[i].invoked # <<>> =>
                  calls[i].invoked[1].agent = agents[BossResponse(calls[i])[1].selected_agent])
    /\ [](/\ Len(calls) <= op.first + Len(op.tasks) - 1
          /\ \A i \in DOMAIN calls : i \in OpCalls => calls[i].task = op.tasks[i - op.first + 1])
    /\ [][NoSecondAttempt]_vars

\* batch_run has returned after two failures: the first task's reply could
\* not be decoded, the second task's handler raised; each call made one
\* completion request, and the handler was invoked once.
C14_Witness ==
    /\ op.kind = "batch_run"
    /\ op.status = "returned"
    /\ Len(op.tasks) = 2
    /\ op.results = <<>>
    /\ calls[op.first].error = Some("AttributeError")
    /\ calls[op.first].runs[1].requests = <<op.tasks[1]>>
    /\ calls[op.first + 1].error = Some("HandlerError")
    /\ Len(calls[op.first + 1].invoked) = 1

\* C15: for every JSON object text J, run parses the reply that is J in a
\* leading json fence and a trailing fence to what it parses the bare J to:
\* the same object, or None for both when J fails the schema.
C15_FenceRoundTrip ==
    /\ reply.of_fenced # None =>
          /\ ~reply.of_fenced[1].raised
          /\ reply.of_fenced[1] = RunReply(reply.bare)
    /\ (reply.of_fenced # None /\ reply.of_bare # None) => reply.of_fenced = reply.of_bare

\* run has parsed an object of two members, given bare and given in a fence
\* with a newline on both sides, to a decision.
C15_Witness ==
    /\ reply.of_bare # None
    /\ reply.of_fenced # None
    /\ Len(reply.bare) = 4
    /\ reply.fenced = FenceJson \o <<"\n">> \o reply.bare \o <<"\n">> \o Fence
    /\ reply.of_fenced[1].value # None
    /\ reply.of_fenced[1].value[1].selected_agent = "B"

\* The script runs of the session that had a query.
QueryRuns == {k \in DOMAIN session.events : session.events[k].kind = "query"}

\* Once a query on an image was answered, no later query on that image
\* calls the extraction.
ExtractedOncePerImage ==
    \A i, j \in QueryRuns :
        (/\ i < j
         /\ session.events[i].answered
         /\ session.events[i].file = session.events[j].file) =>
            ~session.events[j].extracted

\* The upload of another image clears the extraction and the chat history,
\* and the query that follows it, when the script gets to it, calls the
\* extraction.
UploadClears ==
    /\ \A k \in DOMAIN session.events :
        (session.events[k].kind = "upload" /\ session.events[k].changed) =>
            /\ ~session.events[k].cached
            /\ (/\ k < Len(session.events)
                /\ session.events[k + 1].kind = "query"
                /\ session.events[k + 1].processed) =>
                  session.events[k + 1].extracted
    /\ (/\ session.events # <<>>
        /\ session.events[Len(session.events)].kind = "upload"
        /\ session.events[Len(session.events)].changed) =>
            /\ session.extraction = None
            /\ session.chat_history = <<>>
            /\ session.image_path = Some(session.uploader[1].id)

\* C16: in the chat session, over any sequence of uploads and queries, the
\* extraction is called for a query exactly when the session holds no cached
\* extraction; once a query on an image was answered, no later query on that
\* image calls the extraction; the upload of another image clears the cached
\* extraction and the chat history, and the next query extracts anew.
C16_ExtractionWhenNoCache ==
    session.status = "started" =>
        /\ \A k \in QueryRuns :
              session.events[k].extracted <=> ~session.events[k].cached
        /\ ExtractedOncePerImage
        /\ UploadClears

\* C16 as amended: the extraction is called for a query exactly when the
\* script processes the query and the session holds no cached extraction (a
\* query sent before any upload, or while the uploaded file cannot be opened
\* as an image, calls nothing); the rest as in C16.
C16_ExtractionWhenProcessedAndNoCache ==
    session.status = "started" =>
        /\ \A k \in QueryRuns :
              /\ session.events[k].extracted
                   <=> (session.events[k].processed /\ ~session.events[k].cached)
              /\ session.events[k].processed => session.events[k].file # None
        /\ ExtractedOncePerImage
        /\ UploadClears

\* A session of five script runs: an image is uploaded, a first query
\* extracts and is answered, a second query on the same image uses the cached
\* extraction, another image is uploaded, and the query after it extracts.
C16_Witness ==
    /\ session.status = "started"
    /\ Len(session.events) = 5
    /\ session.events[2].extracted /\ session.events[2].answered
    /\ session.events[3].kind = "query"
    /\ session.events[3].cached /\ ~session.events[3].extracted
    /\ session.events[4].kind = "upload" /\ session.events[4].changed
    /\ session.events[5].extracted /\ session.events[5].answered
    /\ session.events[5].file = Some(2)
    /\ session.uploader = Some([id |-> 2, readable |-> TRUE])
    /\ session.extraction = Some(<<"extraction", 2, "q1">>)

=============================================================================
